---- MODULE Spec2Model ----
(***************************************************************************)
(* Decoding instrumentation loops of the neuroviz-internship scripts.      *)
(*                                                                         *)
(* One behaviour is one run of one program of the repository: the forced   *)
(* corpus script (Entropy_experiments/corpus_entropy_forced.py), the free  *)
(* corpus script (Hesitation_experiments/get_probable_tokens.py), or one   *)
(* call of forced_decoding (Hesitation_experiments/test.py),               *)
(* greedy_decoding, ancestral_sampling, top_k_sampling or                  *)
(* predict_wrong_token (utils.py).                                         *)
(*                                                                         *)
(* The neural model, the vocabulary and the random generator are external: *)
(* a call of the model either raises or returns a score vector chosen      *)
(* nondeterministically; the vocabulary lookup either raises or returns    *)
(* ids; a draw of rng.choice is any element of the support.  Tokens are    *)
(* their vocabulary ids.  The entropy column of the result table is a      *)
(* float computed from the scores by scipy; rows carry whether it is the   *)
(* maximal value ln V or below it.  The chained assignment                 *)
(* res_df["sentence_length"][a:b] = i is taken to write through to res_df, *)
(* as it does on the single-block frame these scripts build.               *)
(***************************************************************************)
EXTENDS Integers, Sequences, FiniteSets, TLC

(* ---- bounds of the model ---- *)
VocabSize == 3
MaxScore == 1
MaxBudget == 2
MaxGold == 2
MaxLineTokens == 1
MaxSentences == 2
MaxBatch == 2
ArgmaxCap == 3

(* ---- values the scripts read from the external model ---- *)
bos_index == 0
eos_index == 1

(* float('-inf'): below every score and every probability weight *)
NegInf == -1
(* a Python name that has not been assigned yet *)
Unbound == -2

Vocab == 0 .. (VocabSize - 1)
Scores == 0 .. MaxScore
(* the score vectors the model's output layer can return over the target vocabulary *)
LogitVectors == [Vocab -> Scores]

RECURSIVE SeqsUpTo(_, _)
SeqsUpTo(S, n) ==
    IF n = 0 THEN {<<>>}
    ELSE LET shorter == SeqsUpTo(S, n - 1)
         IN shorter \cup {Append(q, x) : q \in {r \in shorter : Len(r) = n - 1}, x \in S}

(* the id sequences of a tokenized reference sentence, after the vocabulary lookup *)
GoldSeqs == SeqsUpTo(Vocab, MaxGold)

(* the id sequences of one line of the reference file of a corpus run *)
LineSeqs == SeqsUpTo(Vocab, MaxLineTokens)

CorpusRoutines == {"corpus_forced", "corpus_free"}
FunctionRoutines == {"forced_decoding", "greedy_decoding", "ancestral_sampling",
                     "top_k_sampling", "predict_wrong_token"}
Routines == CorpusRoutines \cup FunctionRoutines

VARIABLES
    routine,               \* the program this run executes
    pc,                    \* "sentence", "step", "backfill", "done", "failed"
    error,                 \* the uncaught exception that ended the run, or "none"
    max_output_length,     \* the step budget read from the configuration
    k,                     \* top_k_sampling's k
    batch,                 \* encoder_output.shape[0]
    s,                     \* sentences read so far
    file_en_tokens,        \* tokens read so far from the reference file
    target,                \* ids of the gold sentence, end marker appended
    pos,                   \* iterations the current for loop has started
    i,                     \* the loop variable i
    ys,                    \* the decoder history
    res_df,                \* the result table (res in the functions)
    token_counter,
    bos_id,
    written,               \* number of times the result table was saved
    predicted_translation,
    probas,                \* top_k_sampling: softmax output of the last step
    new_dist_ids,          \* top_k_sampling: ids extracted at the last step
    wt_input,              \* predict_wrong_token: the scores the model returned
    logits,                \* predict_wrong_token: the working score vector
    gold_trg_token,        \* predict_wrong_token: the designated gold token
    wt_result,             \* predict_wrong_token: the returned token
    n_argmax               \* predict_wrong_token: torch.max evaluations so far

vars == <<routine, pc, error, max_output_length, k, batch, s, file_en_tokens, target,
          pos, i, ys, res_df, token_counter, bos_id, written, predicted_translation,
          probas, new_dist_ids, wt_input, logits, gold_trg_token, wt_result, n_argmax>>

(* variables of the corpus scripts *)
corpusVars == <<s, file_en_tokens, token_counter, bos_id, written>>
(* variables of top_k_sampling and predict_wrong_token *)
topkVars == <<probas, new_dist_ids>>
wrongVars == <<wt_input, logits, gold_trg_token, wt_result, n_argmax>>
inputVars == <<routine, max_output_length, k, batch>>

(* ---------------------------------------------------------------------- *)
(* Pure helpers                                                            *)
(* ---------------------------------------------------------------------- *)

(* torch.max(v, dim=1): the maximum and the first index that attains it *)
Argmax(v) ==
    CHOOSE t \in DOMAIN v :
        /\ \A u \in DOMAIN v : v[u] <= v[t]
        /\ \A u \in DOMAIN v : v[u] = v[t] => t <= u

RECURSIVE Pow2(_)
Pow2(n) == IF n = 0 THEN 1 ELSE 2 * Pow2(n - 1)

(* Softmax(dim=1) up to the common normaliser: positive, strictly increasing in the score *)
softmax(v) == [t \in DOMAIN v |-> Pow2(v[t])]

(* scipy.stats.entropy(pk) by what separates its values here: the entropy of a
   distribution over the vocabulary is maximal (ln V) exactly when it is uniform *)
entropy(pk) ==
    IF \A a, b \in DOMAIN pk : pk[a] = pk[b] THEN "ln_V" ELSE "below_ln_V"

(* res_df.loc[label] = row: overwrite the row with that label, or enlarge the table *)
SetRow(df, label, row) ==
    IF label < Len(df) THEN [df EXCEPT ![label + 1] = row] ELSE Append(df, row)

(* a decoder that feeds back its own prediction *)
ForcedNextInput_Pred(gold, lg) == Argmax(lg)

(* the token forced decoding feeds back: the gold token, whatever the model predicted *)
ForcedNextInput(gold, lg) == gold

(* a loop that never leaves early *)
BreakOnEos_Never(pred) == FALSE

(* the free loops' early exit: if(pred_trg_token == eos_index): break *)
BreakOnEos(pred) == pred = eos_index

(* a slice without its lower bound: : bos_id + i + 1 *)
BackfillSlice_FromStart(bos, iv) == 0 .. (bos + iv)

(* a slice that stops one row short: bos_id : bos_id + i *)
BackfillSlice_Short(bos, iv) == bos .. (bos + iv - 1)

(* the row labels bos_id : bos_id + i + 1 of the backfill slice *)
BackfillSlice(bos, iv) == bos .. (bos + iv)

(* res_df["sentence_length"][bos_id:bos_id + i + 1] = i *)
SetSentenceLength(df, bos, iv) ==
    [r \in DOMAIN df |->
        IF (r - 1) \in BackfillSlice(bos, iv)
        THEN [df[r] EXCEPT !.sentence_length = iv]
        ELSE df[r]]

(* a test that accepts the first argmax *)
WrongTokenReturns_Always(pred, gold) == TRUE

(* predict_wrong_token's test: if pred_trg_token != gold_trg_token: return *)
WrongTokenReturns(pred, gold) == pred # gold

(* an extraction that leaves the working copy as it was *)
MaskToken_None(v, t) == v

(* v[0][t] = float('-inf') *)
MaskToken(v, t) == [v EXCEPT ![t] = NegInf]

(* top_k_sampling's inner loop, lines 245-250: j more extractions from the working copy *)
RECURSIVE Extract(_, _, _, _)
Extract(work, j, ids, probs) ==
    IF j = 0 THEN [ids |-> ids, probs |-> probs]
    ELSE LET max_token == Argmax(work)
         IN Extract(MaskToken(work, max_token), j - 1,
                    Append(ids, max_token), Append(probs, work[max_token]))

(* rng.choice(new_dist_ids, p=new_dist_probs / z) accepts a non-empty list of finite weights *)
ChoiceAccepts(ext) ==
    /\ Len(ext.ids) > 0
    /\ \A j \in 1 .. Len(ext.probs) : ext.probs[j] # NegInf

(* the greedy loop has no bound of its own; the model stops exploring it here *)
GreedyCap == MaxBudget + 1

(* ---------------------------------------------------------------------- *)
(* Initial states: the program that runs and its inputs                    *)
(* ---------------------------------------------------------------------- *)

FreeRoutines == {"corpus_free", "greedy_decoding", "ancestral_sampling", "top_k_sampling"}

(* the free loops that run under for ... in range(max_output_length) *)
BudgetedRoutines == {"corpus_free", "ancestral_sampling", "top_k_sampling"}

(* score vectors predict_wrong_token can be handed: any vocabulary size, -inf included *)
WrongTokenInputs ==
    UNION {[0 .. (n - 1) -> Scores \cup {NegInf}] : n \in 1 .. VocabSize}

Init ==
    /\ routine \in Routines
    /\ pc = IF routine \in CorpusRoutines THEN "sentence" ELSE "step"
    /\ error = "none"
    /\ max_output_length \in (IF routine \in BudgetedRoutines THEN 0 .. MaxBudget
                                ELSE {MaxBudget})
    /\ k \in (IF routine = "top_k_sampling" THEN 0 .. (VocabSize + 1) ELSE {0})
    /\ batch \in (IF routine \in FunctionRoutines THEN 1 .. MaxBatch ELSE {1})
    /\ s = 0
    /\ file_en_tokens = 0
    /\ target \in (IF routine = "forced_decoding"
                   THEN {g \o <<eos_index>> : g \in GoldSeqs}
                   ELSE {<<>>})
    /\ pos = 0
    /\ i = Unbound
    /\ ys = <<bos_index>>
    /\ res_df = <<>>
    /\ token_counter = 0
    /\ bos_id = 0
    /\ written = 0
    /\ predicted_translation = <<>>
    /\ probas = <<>>
    /\ new_dist_ids = <<>>
    /\ wt_input \in (IF routine = "predict_wrong_token" THEN WrongTokenInputs ELSE {<<>>})
    /\ logits = wt_input
    /\ gold_trg_token \in (IF routine = "predict_wrong_token" THEN DOMAIN wt_input ELSE {0})
    /\ wt_result = Unbound
    /\ n_argmax = 0

(* ---------------------------------------------------------------------- *)
(* Failures of the external calls: nothing catches them                    *)
(* ---------------------------------------------------------------------- *)

Fail(e) ==
    /\ pc' = "failed"
    /\ error' = e

(* a handler that saves the partial table when the model call raises *)
ModelCallRaises_SavesPartial ==
    /\ pc = "step"
    /\ Fail("PredictionError")
    /\ written' = written + 1
    /\ UNCHANGED <<inputVars, s, file_en_tokens, token_counter, bos_id, target, pos, i, ys,
                   res_df, predicted_translation, topkVars, wrongVars>>

(* model(return_type="decode", ...) raises inside a decoding step *)
ModelCallRaises ==
    /\ pc = "step"
    /\ routine = "predict_wrong_token" => n_argmax = 0
    /\ Fail("PredictionError")
    /\ UNCHANGED <<inputVars, corpusVars, target, pos, i, ys, res_df,
                   predicted_translation, topkVars, wrongVars>>

(* the vocabulary lookup or the encoder raises while a sentence is set up *)
SentenceSetupRaises ==
    /\ routine \in CorpusRoutines
    /\ pc = "sentence"
    /\ s < MaxSentences
    /\ s' = s + 1
    /\ \E e \in {"VocabularyLookupError", "PredictionError"} : Fail(e)
    /\ UNCHANGED <<inputVars, file_en_tokens, token_counter, bos_id, written, target, pos, i,
                   ys, res_df, predicted_translation, topkVars, wrongVars>>

(* ---------------------------------------------------------------------- *)
(* corpus_entropy_forced.py                                                *)
(* ---------------------------------------------------------------------- *)

(* one iteration of the sentence loop up to the inner loop: lines 35-49 *)
CF_NextSentence ==
    /\ routine = "corpus_forced"
    /\ pc = "sentence"
    /\ s < MaxSentences
    /\ \E g \in LineSeqs :
        /\ target' = g \o <<eos_index>>
        /\ file_en_tokens' = file_en_tokens + Len(g)
    /\ s' = s + 1
    /\ ys' = <<bos_index>>
    /\ bos_id' = token_counter
    /\ pos' = 0
    /\ pc' = "step"
    /\ UNCHANGED <<inputVars, error, token_counter, written, i, res_df,
                   predicted_translation, topkVars, wrongVars>>

(* one iteration of the forced loop: lines 50-75 *)
CF_Step ==
    /\ routine = "corpus_forced"
    /\ pc = "step"
    /\ \E lg \in LogitVectors :
        /\ res_df' = SetRow(res_df, token_counter,
                            [token_position |-> pos, sentence_length |-> -1,
                             entropy |-> entropy(softmax(lg))])
        /\ ys' = Append(ys, ForcedNextInput(target[pos + 1], lg))
    /\ i' = pos
    /\ token_counter' = token_counter + 1
    /\ pos' = pos + 1
    /\ pc' = IF pos + 1 = Len(target) THEN "backfill" ELSE "step"
    /\ UNCHANGED <<inputVars, error, s, file_en_tokens, bos_id, written, target,
                   predicted_translation, topkVars, wrongVars>>

(* line 77 *)
CF_Backfill ==
    /\ routine = "corpus_forced"
    /\ pc = "backfill"
    /\ res_df' = SetSentenceLength(res_df, bos_id, i)
    /\ pc' = "sentence"
    /\ UNCHANGED <<inputVars, error, corpusVars, target, pos, i, ys,
                   predicted_translation, topkVars, wrongVars>>

(* the files are exhausted: lines 79-82, res_df.to_json *)
CF_Write ==
    /\ routine = "corpus_forced"
    /\ pc = "sentence"
    /\ written' = written + 1
    /\ pc' = "done"
    /\ UNCHANGED <<inputVars, error, s, file_en_tokens, token_counter, bos_id, target, pos, i,
                   ys, res_df, predicted_translation, topkVars, wrongVars>>

(* ---------------------------------------------------------------------- *)
(* get_probable_tokens.py                                                  *)
(* ---------------------------------------------------------------------- *)

(* one iteration of the sentence loop up to the inner loop: lines 15-26 *)
FR_NextSentence ==
    /\ routine = "corpus_free"
    /\ pc = "sentence"
    /\ s < MaxSentences
    /\ s' = s + 1
    /\ ys' = <<bos_index>>
    /\ bos_id' = token_counter
    /\ pos' = 0
    /\ pc' = IF max_output_length = 0 THEN "backfill" ELSE "step"
    /\ UNCHANGED <<inputVars, error, file_en_tokens, token_counter, written, target, i, res_df,
                   predicted_translation, topkVars, wrongVars>>

(* one iteration of the free loop: lines 27-59 *)
FR_Step ==
    /\ routine = "corpus_free"
    /\ pc = "step"
    /\ \E lg \in LogitVectors :
        LET pred_trg_token == Argmax(lg)
        IN /\ res_df' = SetRow(res_df, token_counter,
                               [token_position |-> pos, sentence_length |-> -1,
                                entropy |-> entropy(softmax(lg))])
           /\ ys' = Append(ys, pred_trg_token)
           /\ pc' = IF BreakOnEos(pred_trg_token) \/ pos + 1 = max_output_length
                    THEN "backfill" ELSE "step"
    /\ i' = pos
    /\ token_counter' = token_counter + 1
    /\ pos' = pos + 1
    /\ UNCHANGED <<inputVars, error, s, file_en_tokens, bos_id, written, target,
                   predicted_translation, topkVars, wrongVars>>

(* line 61; i is unbound when no iteration of any sentence has run *)
FR_Backfill ==
    /\ routine = "corpus_free"
    /\ pc = "backfill"
    /\ IF i = Unbound
       THEN /\ Fail("NameError")
            /\ UNCHANGED res_df
       ELSE /\ res_df' = SetSentenceLength(res_df, bos_id, i)
            /\ pc' = "sentence"
            /\ UNCHANGED error
    /\ UNCHANGED <<inputVars, corpusVars, target, pos, i, ys,
                   predicted_translation, topkVars, wrongVars>>

(* the file is exhausted: lines 63-65, res_df.to_pickle *)
FR_Write ==
    /\ routine = "corpus_free"
    /\ pc = "sentence"
    /\ written' = written + 1
    /\ pc' = "done"
    /\ UNCHANGED <<inputVars, error, s, file_en_tokens, token_counter, bos_id, target, pos, i,
                   ys, res_df, predicted_translation, topkVars, wrongVars>>

(* ---------------------------------------------------------------------- *)
(* test.py: forced_decoding                                                *)
(* ---------------------------------------------------------------------- *)

(* one iteration of the loop, lines 75-101; .item() needs a one-element tensor *)
FD_Step ==
    /\ routine = "forced_decoding"
    /\ pc = "step"
    /\ IF batch # 1
       THEN /\ Fail("ValueError")
            /\ UNCHANGED <<ys, res_df, pos>>
       ELSE /\ \E lg \in LogitVectors :
                /\ res_df' = Append(res_df, [predicted_token_idx |-> Argmax(lg),
                                             gold_token_idx |-> target[pos + 1]])
                /\ ys' = Append(ys, ForcedNextInput(target[pos + 1], lg))
            /\ pos' = pos + 1
            /\ pc' = IF pos + 1 = Len(target) THEN "done" ELSE "step"
            /\ UNCHANGED error
    /\ UNCHANGED <<inputVars, corpusVars, target, i, predicted_translation, topkVars, wrongVars>>

(* ---------------------------------------------------------------------- *)
(* utils.py: greedy_decoding, ancestral_sampling, top_k_sampling           *)
(* ---------------------------------------------------------------------- *)

(* one iteration of while(True), lines 107-139 *)
GD_Step ==
    /\ routine = "greedy_decoding"
    /\ pc = "step"
    /\ pos < GreedyCap
    /\ IF batch # 1
       THEN /\ Fail("ValueError")
            /\ UNCHANGED <<ys, res_df, pos, predicted_translation>>
       ELSE /\ \E lg \in LogitVectors :
                LET pred_trg_token == Argmax(lg)
                IN /\ res_df' = Append(res_df, [predicted_token_idx |-> pred_trg_token])
                   /\ ys' = Append(ys, pred_trg_token)
                   /\ IF BreakOnEos(pred_trg_token)
                      THEN /\ pc' = "done"
                           /\ UNCHANGED predicted_translation
                      ELSE /\ pc' = "step"
                           /\ predicted_translation' =
                                  Append(predicted_translation, pred_trg_token)
            /\ pos' = pos + 1
            /\ UNCHANGED error
    /\ UNCHANGED <<inputVars, corpusVars, target, i, topkVars, wrongVars>>

(* for ... in range(max_output_length) has no iteration left: return, lines 197 and 263 *)
BudgetExhausted ==
    /\ routine \in {"ancestral_sampling", "top_k_sampling"}
    /\ pc = "step"
    /\ pos = max_output_length
    /\ pc' = "done"
    /\ UNCHANGED <<inputVars, error, corpusVars, target, pos, i, ys, res_df,
                   predicted_translation, topkVars, wrongVars>>

(* one iteration of the sampling loop, lines 170-195; probas[0] reads the first row only *)
AS_Step ==
    /\ routine = "ancestral_sampling"
    /\ pc = "step"
    /\ pos < max_output_length
    /\ \E lg \in LogitVectors :
        \E pred_trg_token \in {t \in Vocab : softmax(lg)[t] > 0} :
            /\ ys' = Append(ys, pred_trg_token)
            /\ IF BreakOnEos(pred_trg_token)
               THEN /\ pc' = "done"
                    /\ UNCHANGED predicted_translation
               ELSE /\ pc' = "step"
                    /\ predicted_translation' = Append(predicted_translation, pred_trg_token)
    /\ pos' = pos + 1
    /\ UNCHANGED <<inputVars, error, corpusVars, target, i, res_df, topkVars, wrongVars>>

(* one iteration of the top-k loop, lines 226-261; int(max_token) needs one element *)
TK_Step ==
    /\ routine = "top_k_sampling"
    /\ pc = "step"
    /\ pos < max_output_length
    /\ IF batch # 1
       THEN /\ Fail("ValueError")
            /\ UNCHANGED <<ys, pos, predicted_translation, topkVars>>
       ELSE \E lg \in LogitVectors :
            LET ext == Extract(softmax(lg), k, <<>>, <<>>)
            IN /\ probas' = softmax(lg)
               /\ new_dist_ids' = ext.ids
               /\ IF ~ChoiceAccepts(ext)
                  THEN /\ Fail("ValueError")
                       /\ UNCHANGED <<ys, pos, predicted_translation>>
                  ELSE \E c \in 1 .. Len(ext.ids) :
                       LET pred_trg_token == ext.ids[c]
                       IN /\ ys' = Append(ys, pred_trg_token)
                          /\ pos' = pos + 1
                          /\ UNCHANGED error
                          /\ IF BreakOnEos(pred_trg_token)
                             THEN /\ pc' = "done"
                                  /\ UNCHANGED predicted_translation
                             ELSE /\ pc' = "step"
                                  /\ predicted_translation' =
                                         Append(predicted_translation, pred_trg_token)
    /\ UNCHANGED <<inputVars, corpusVars, target, i, res_df, wrongVars>>

(* ---------------------------------------------------------------------- *)
(* utils.py: predict_wrong_token                                           *)
(* ---------------------------------------------------------------------- *)

(* one iteration of while(True), lines 301-306; int(...) needs a one-element tensor *)
WT_Iter ==
    /\ routine = "predict_wrong_token"
    /\ pc = "step"
    /\ n_argmax < ArgmaxCap
    /\ IF batch # 1
       THEN /\ Fail("ValueError")
            /\ UNCHANGED <<logits, wt_result, n_argmax>>
       ELSE LET pred_trg_token == Argmax(logits)
            IN /\ n_argmax' = n_argmax + 1
               /\ UNCHANGED error
               /\ IF WrongTokenReturns(pred_trg_token, gold_trg_token)
                  THEN /\ wt_result' = pred_trg_token
                       /\ pc' = "done"
                       /\ UNCHANGED logits
                  ELSE /\ logits' = MaskToken(logits, pred_trg_token)
                       /\ pc' = "step"
                       /\ UNCHANGED wt_result
    /\ UNCHANGED <<inputVars, corpusVars, target, pos, i, ys, res_df, predicted_translation,
                   topkVars, wt_input, gold_trg_token>>

Next ==
    \/ ModelCallRaises
    \/ SentenceSetupRaises
    \/ CF_NextSentence
    \/ CF_Step
    \/ CF_Backfill
    \/ CF_Write
    \/ FR_NextSentence
    \/ FR_Step
    \/ FR_Backfill
    \/ FR_Write
    \/ FD_Step
    \/ GD_Step
    \/ BudgetExhausted
    \/ AS_Step
    \/ TK_Step
    \/ WT_Iter

Spec == Init /\ [][Next]_vars

(* ---------------------------------------------------------------------- *)
(* Vocabulary of the properties                                            *)
(* ---------------------------------------------------------------------- *)

(* steps the current decoding loop has recorded: the history grows by one per step *)
StepsTaken == Len(ys) - 1

(* rows 1 .. FinalizedRows belong to sentences whose backfill has run *)
FinalizedRows == IF pc \in {"sentence", "done"} THEN Len(res_df) ELSE bos_id

(* the last row of the sentence that row r belongs to: a sentence starts at position 0 *)
SentenceEnd(r) ==
    CHOOSE q \in r .. Len(res_df) :
        /\ q = Len(res_df) \/ res_df[q + 1].token_position = 0
        /\ \A m \in (r + 1) .. q : res_df[m].token_position # 0

SentenceStart(r) ==
    CHOOSE q \in 1 .. r :
        /\ res_df[q].token_position = 0
        /\ \A m \in (q + 1) .. r : res_df[m].token_position # 0

RowsOfSentence(r) == SentenceEnd(r) - SentenceStart(r) + 1

(* the inner loop of the current sentence, or the function's loop, has been left normally *)
LoopLeft ==
    \/ pc = "backfill"
    \/ routine \in CorpusRoutines /\ pc \in {"sentence", "done"} /\ s > 0
    \/ routine \in FunctionRoutines /\ pc = "done"

(* ---------------------------------------------------------------------- *)
(* C1                                                                      *)
(* ---------------------------------------------------------------------- *)

(* C1: in both corpus loops, every row of a finalized sentence carries a
   sentence_length equal to the number of rows recorded for that sentence. *)
C1_LengthIsRowCount ==
    routine \in CorpusRoutines =>
        \A r \in 1 .. FinalizedRows : res_df[r].sentence_length = RowsOfSentence(r)

(* ---------------------------------------------------------------------- *)
(* C2                                                                      *)
(* ---------------------------------------------------------------------- *)

(* C2: after the backfill every row of the sentence carries the 0-based index of
   the last step executed for it (forced: the end-marker step; free: the step
   that selected the end marker, or budget - 1), and none keeps the placeholder -1. *)
C2_LengthIsLastIndex ==
    routine \in CorpusRoutines =>
        /\ \A r \in 1 .. FinalizedRows :
            /\ res_df[r].sentence_length = res_df[SentenceEnd(r)].token_position
            /\ res_df[r].sentence_length # -1
        /\ (pc = "sentence" /\ StepsTaken > 0) =>
            /\ res_df[Len(res_df)].sentence_length = StepsTaken - 1
            /\ routine = "corpus_forced" =>
                /\ StepsTaken = Len(target)
                /\ target[StepsTaken] = eos_index
            /\ routine = "corpus_free" =>
                \/ ys[Len(ys)] = eos_index
                \/ StepsTaken - 1 = max_output_length - 1

(* two sentences are finalized, the second with several rows, in free mode on budget *)
C2_Witness ==
    /\ routine = "corpus_free"
    /\ pc = "sentence"
    /\ s = 2
    /\ bos_id > 0
    /\ Len(res_df) - bos_id = max_output_length
    /\ max_output_length >= 2
    /\ ys[Len(ys)] # eos_index

(* ---------------------------------------------------------------------- *)
(* C3                                                                      *)
(* ---------------------------------------------------------------------- *)

(* C3: a budgeted free loop never runs a step after the one that selected the end
   marker, never runs more than max_output_length steps, and runs exactly
   max_output_length steps when the end marker is never selected. *)
C3_BudgetAndEos ==
    routine \in BudgetedRoutines =>
        /\ StepsTaken <= max_output_length
        /\ \A j \in 2 .. (Len(ys) - 1) : ys[j] # eos_index
        /\ (StepsTaken > 0 /\ ys[Len(ys)] = eos_index) => pc # "step"
        /\ (LoopLeft /\ \A j \in 2 .. Len(ys) : ys[j] # eos_index) =>
            StepsTaken = max_output_length

(* the end marker is selected before the budget runs out and the loop is left *)
C3_Witness ==
    /\ routine = "top_k_sampling"
    /\ pc = "done"
    /\ max_output_length = 2
    /\ StepsTaken = 1
    /\ ys[Len(ys)] = eos_index

(* ---------------------------------------------------------------------- *)
(* C4                                                                      *)
(* ---------------------------------------------------------------------- *)

(* C4: every free-decoding routine, greedy_decoding included, is bounded by the
   step budget: it never runs more than max_output_length steps, so it ends
   whatever the predictor selects. *)
C4_AllFreeDecodingBounded ==
    routine \in FreeRoutines => StepsTaken <= max_output_length

(* ---------------------------------------------------------------------- *)
(* C5                                                                      *)
(* ---------------------------------------------------------------------- *)

ForcedRoutines == {"corpus_forced", "forced_decoding"}

(* C5: in forced decoding the history is BOS followed by the gold tokens consumed
   so far, whatever the model predicted, and the loop runs exactly one step per
   gold token plus the appended end marker. *)
C5_ForcedHistory ==
    routine \in ForcedRoutines =>
        /\ pos <= Len(target)
        /\ StepsTaken = pos
        /\ ys = <<bos_index>> \o SubSeq(target, 1, pos)
        /\ pc = "step" => pos < Len(target)
        /\ (LoopLeft /\ error = "none") =>
            /\ pos = Len(target)
            /\ target[Len(target)] = eos_index

(* forced_decoding finished two gold tokens although the model predicted otherwise *)
C5_Witness ==
    /\ routine = "forced_decoding"
    /\ pc = "done"
    /\ Len(target) = 3
    /\ \A r \in 1 .. Len(res_df) : res_df[r].predicted_token_idx # res_df[r].gold_token_idx

(* ---------------------------------------------------------------------- *)
(* C6                                                                      *)
(* ---------------------------------------------------------------------- *)

(* C6: whenever predict_wrong_token returns, the token differs from the gold token
   and no token other than the gold token scores higher. *)
C6_WrongTokenIsBestOther ==
    (routine = "predict_wrong_token" /\ pc = "done") =>
        /\ wt_result \in DOMAIN wt_input
        /\ wt_result # gold_trg_token
        /\ \A u \in DOMAIN wt_input \ {gold_trg_token} : wt_input[u] <= wt_input[wt_result]

(* the gold token was the argmax, was masked, and the second argmax was returned *)
C6_Witness ==
    /\ routine = "predict_wrong_token"
    /\ pc = "done"
    /\ n_argmax = 2
    /\ \A u \in DOMAIN wt_input : wt_input[u] <= wt_input[gold_trg_token]
    /\ logits[gold_trg_token] = NegInf

(* ---------------------------------------------------------------------- *)
(* C7                                                                      *)
(* ---------------------------------------------------------------------- *)

(* C7: for 1 <= k <= V the k ids top_k_sampling extracts at a step are pairwise
   distinct, are the k most probable tokens in non-increasing order of
   probability, and the token appended to the history is one of them. *)
C7_TopK ==
    (routine = "top_k_sampling" /\ k \in 1 .. VocabSize /\ StepsTaken > 0) =>
        /\ Len(new_dist_ids) = k
        /\ \A a, b \in 1 .. k : a # b => new_dist_ids[a] # new_dist_ids[b]
        /\ \A a, b \in 1 .. k : a < b => probas[new_dist_ids[a]] >= probas[new_dist_ids[b]]
        /\ \A a \in 1 .. k :
            \A u \in Vocab \ {new_dist_ids[b] : b \in 1 .. k} :
                probas[u] <= probas[new_dist_ids[a]]
        /\ \E a \in 1 .. k : ys[Len(ys)] = new_dist_ids[a]

(* with tied probabilities and k = 2 the sampled token is the second extracted id *)
C7_Witness ==
    /\ routine = "top_k_sampling"
    /\ k = 2
    /\ StepsTaken > 0
    /\ ys[Len(ys)] = new_dist_ids[2]
    /\ probas[new_dist_ids[1]] = probas[new_dist_ids[2]]

(* ---------------------------------------------------------------------- *)
(* C8                                                                      *)
(* ---------------------------------------------------------------------- *)

(* C8: with an encoding whose batch size is not one, the loop fails before it
   records any decoding step. *)
C8_NoStepOnBadShape ==
    batch # 1 => (StepsTaken = 0 /\ res_df = <<>>)

(* ---------------------------------------------------------------------- *)
(* C9                                                                      *)
(* ---------------------------------------------------------------------- *)

C9_State ==
    routine \in CorpusRoutines =>
        /\ written <= 1
        /\ pc = "failed" => written = 0
        /\ written = 1 =>
            /\ pc = "done"
            /\ error = "none"
            /\ \A r \in 1 .. Len(res_df) : res_df[r].sentence_length # -1

C9_Step ==
    routine \in CorpusRoutines =>
        /\ pc = "failed" => (s' = s /\ res_df' = res_df /\ written' = written /\ pc' = "failed")
        /\ written' # written => (pc = "sentence" /\ pc' = "done")
        /\ (pc' = "failed" /\ pc # "failed") => (error' # "none" /\ res_df' = res_df)

(* C9: a corpus run saves its table at most once, only when the sentence loop has
   ended with every sentence backfilled; a failure in any sentence is not caught,
   no later sentence is processed and nothing is saved. *)
C9_WriteOnceNoRecovery == []C9_State /\ [][C9_Step]_vars

(* the run failed in its second sentence with rows of the first already recorded *)
C9_Witness ==
    /\ routine \in CorpusRoutines
    /\ pc = "failed"
    /\ error = "PredictionError"
    /\ s = 2
    /\ bos_id > 0
    /\ Len(res_df) > bos_id
    /\ written = 0

(* ---------------------------------------------------------------------- *)
(* C10                                                                     *)
(* ---------------------------------------------------------------------- *)

(* C10: a finished forced corpus run holds as many rows as the reference corpus
   has tokens, and forced_decoding returns as many rows as the reference
   sentence it was given has tokens. *)
C10_RowsEqualReferenceTokens ==
    /\ (routine = "corpus_forced" /\ pc = "done") => Len(res_df) = file_en_tokens
    /\ (routine = "forced_decoding" /\ pc = "done") => Len(res_df) = Len(target) - 1

(* ---------------------------------------------------------------------- *)
(* C11                                                                     *)
(* ---------------------------------------------------------------------- *)

(* the index the backfill uses is the one bound by the current sentence's own
   last step, and the slice ends at the last row of the table *)
C11_State ==
    (routine \in CorpusRoutines /\ pc = "backfill") =>
        \/ i = Unbound /\ StepsTaken = 0
        \/ i = StepsTaken - 1 /\ bos_id + i + 1 = Len(res_df)

(* no step removes a row, touches a row of a finalized sentence, or changes the
   token_position or the entropy of a row *)
C11_Step ==
    routine \in CorpusRoutines =>
        /\ Len(res_df') >= Len(res_df)
        /\ pc = "backfill" => Len(res_df') = Len(res_df)
        /\ \A r \in 1 .. FinalizedRows : res_df'[r] = res_df[r]
        /\ \A r \in 1 .. Len(res_df) :
            /\ res_df'[r].token_position = res_df[r].token_position
            /\ res_df'[r].entropy = res_df[r].entropy

(* C11: finalizing a sentence changes only the sentence_length of that sentence's
   own rows: the rows of every sentence finalized before, and the token_position
   and entropy of all rows, are the same before and after the backfill; the loop
   index it uses is never one left over from an earlier sentence. *)
C11_BackfillFrame == []C11_State /\ [][C11_Step]_vars

(* two sentences are finalized with different lengths and different entropies *)
C11_Witness ==
    /\ routine \in CorpusRoutines
    /\ pc = "sentence"
    /\ s = 2
    /\ bos_id > 0
    /\ Len(res_df) > bos_id
    /\ res_df[1].sentence_length # res_df[Len(res_df)].sentence_length
    /\ res_df[1].entropy # res_df[Len(res_df)].entropy
    /\ \A r \in 1 .. Len(res_df) : res_df[r].sentence_length # -1

(* ---------------------------------------------------------------------- *)
(* C12                                                                     *)
(* ---------------------------------------------------------------------- *)

(* C12: predict_wrong_token returns after at most two argmax evaluations, for
   every score vector and every gold token: once torch.max has been evaluated
   twice on a one-sentence input the function has returned. *)
C12_ReturnsWithinTwoArgmax ==
    (routine = "predict_wrong_token" /\ batch = 1 /\ n_argmax >= 2) => pc = "done"

====
